---- MODULE Spec2Model ----
(***************************************************************************)
(* MapCSS styler (src/mapcss/styler.rs): selector matching, the per-layer  *)
(* cascade with the "*" wildcard layer, typed style extraction with        *)
(* diagnostics, the canvas fill colour and the draw-order sort.            *)
(*                                                                         *)
(* Encodings.  Option<T>: None is <<>>, Some(x) is <<x>>.  HashMap<K,V>: a *)
(* function whose DOMAIN is the key set.  f64: an integer, and NaN a value *)
(* outside the numbers used.  Enum variants: records tagged by "kind".     *)
(***************************************************************************)
EXTENDS Integers, Sequences, FiniteSets, TLC

VARIABLES
    rules,              \* Styler.rules
    canvas_fill_color,  \* Styler.canvas_fill_color
    features,           \* the entities the geodata reader can hand out
    zoom,               \* style_areas: argument zoom
    areas,              \* style_areas: the items of the iterator, in order
    pc,                 \* position inside style_areas
    ai,                 \* index in areas of the feature x being styled
    ri,                 \* style_area: index of rule in self.rules
    si,                 \* style_area: index of sel in rule.selectors
    result,             \* style_area: the LayerToPropertyMap being built
    pending,            \* keys of result its into_iter() has not yielded yet
    styled_areas,       \* style_areas: the collected (area, Style) pairs
    log,                \* lines written by eprintln!, in order
    prev                \* what the previous call of style_areas returned

vars == <<rules, canvas_fill_color, features, zoom, areas, pc, ai, ri, si,
          result, pending, styled_areas, log, prev>>

(***************************************************************************)
(* Bounds of the model.                                                    *)
(***************************************************************************)
MaxZoom == 1
MaxRules == 3
MaxSortRules == 2
MaxCanvasRules == 2

(***************************************************************************)
(* Option, HashMap, sequences.                                             *)
(***************************************************************************)
None == <<>>
Some(x) == <<x>>
IsSome(o) == o # <<>>
Unwrap(o) == o[1]

EmptyMap == [k \in {} |-> k]
ContainsKey(m, k) == k \in DOMAIN m
Get(m, k) == IF k \in DOMAIN m THEN Some(m[k]) ELSE None
Insert(m, k, v) == [x \in (DOMAIN m) \cup {k} |-> IF x = k THEN v ELSE m[x]]

SeqsUpTo(S, n) == UNION {[1..k -> S] : k \in 0..n}
Distinct(s) == \A i, j \in 1..Len(s) : i # j => s[i] # s[j]

(***************************************************************************)
(* f64.                                                                    *)
(***************************************************************************)
NaN == 0 - 1
IsNaN(x) == x = NaN

\* f64::partial_cmp
f64_partial_cmp(a, b) ==
    IF IsNaN(a) \/ IsNaN(b) THEN "None"
    ELSE IF a < b THEN "Less"
    ELSE IF a > b THEN "Greater"
    ELSE "Equal"

\* u64::partial_cmp
u64_partial_cmp(a, b) ==
    IF a < b THEN "Less" ELSE IF a > b THEN "Greater" ELSE "Equal"

(***************************************************************************)
(* The parsed stylesheet (mapcss::parser), as styler.rs reads it.          *)
(***************************************************************************)
Color(c) == [kind |-> "Color", color |-> c]
Identifier(s) == [kind |-> "Identifier", id |-> s]
Numbers(n) == [kind |-> "Numbers", nums |-> n]

Property(n, v) == [name |-> n, value |-> v]

Way(closed) == [type |-> "Way", should_be_closed |-> closed]
Canvas == [type |-> "Canvas"]
Node == [type |-> "Node"]

SingleSelector(ot, mn, mx, ts, layer) ==
    [object_type |-> ot, min_zoom |-> mn, max_zoom |-> mx,
     tests |-> ts, layer_id |-> layer]

Single(s) == [kind |-> "Single", single |-> s]
Nested(p, c) == [kind |-> "Nested", parent |-> p, child |-> c]

Unary(tag, tt) == [kind |-> "Unary", tag_name |-> tag, test_type |-> tt]
BinaryStringCompare(tag, v, tt) ==
    [kind |-> "BinaryStringCompare", tag_name |-> tag, value |-> v,
     test_type |-> tt]
BinaryNumericCompare(tag, v, tt) ==
    [kind |-> "BinaryNumericCompare", tag_name |-> tag, value |-> v,
     test_type |-> tt]

Rule(sels, props) == [selectors |-> sels, properties |-> props]

(***************************************************************************)
(* Collaborators outside styler.rs.                                        *)
(***************************************************************************)
\* geodata::reader: an entity with its global id, closed flag and tags
Area(id, closed, tags) == [id |-> id, closed |-> closed, tags |-> tags]
global_id(e) == e.id
is_closed(a) == a.closed
get_by_key(tags, k) == Get(tags, k)

\* mapcss::color::from_color_name: the table of colour names
ColorNames == [n \in {"red", "white"} |->
                 IF n = "red" THEN "#ff0000" ELSE "#ffffff"]
from_color_name(id) == Get(ColorNames, id)

\* str::parse::<f64> on the tag values the model uses
ParsedF64 == [s \in {"1", "2"} |-> IF s = "1" THEN 1 ELSE 2]
parse_f64(s) == IF s \in DOMAIN ParsedF64 THEN [ok |-> TRUE, v |-> ParsedF64[s]]
                ELSE [ok |-> FALSE, v |-> 0]

(***************************************************************************)
(* Selector matching.                                                      *)
(***************************************************************************)
is_true_value(x) == x = "yes" \/ x = "true" \/ x = "1"

matches_by_tags(entity, test) ==
    LET tag_val == get_by_key(entity.tags, test.tag_name) IN
    CASE test.kind = "Unary" ->
           (CASE test.test_type = "Exists" -> IsSome(tag_val)
              [] test.test_type = "NotExists" -> ~IsSome(tag_val)
              [] test.test_type = "True" ->
                   IsSome(tag_val) /\ is_true_value(Unwrap(tag_val))
              [] test.test_type = "False" ->
                   ~(IsSome(tag_val) /\ is_true_value(Unwrap(tag_val))))
      [] test.kind = "BinaryStringCompare" ->
           (CASE test.test_type = "Equal" -> tag_val = Some(test.value)
              [] test.test_type = "NotEqual" -> tag_val # Some(test.value))
      [] test.kind = "BinaryNumericCompare" ->
           IF ~IsSome(tag_val) THEN FALSE
           ELSE LET parsed == parse_f64(Unwrap(tag_val)) IN
                IF ~parsed.ok THEN FALSE
                ELSE CASE test.test_type = "Less" -> parsed.v < test.value
                       [] test.test_type = "LessOrEqual" -> parsed.v <= test.value
                       [] test.test_type = "Greater" -> parsed.v > test.value
                       [] test.test_type = "GreaterOrEqual" -> parsed.v >= test.value

\* the zoom tests written with <= and >=
area_matches_single_exclusive(area, selector, z) ==
    IF IsSome(selector.min_zoom) /\ z <= Unwrap(selector.min_zoom) THEN FALSE
    ELSE IF IsSome(selector.max_zoom) /\ z >= Unwrap(selector.max_zoom) THEN FALSE
    ELSE IF selector.object_type.type # "Way" THEN FALSE
    ELSE LET good_object_type ==
                 IF selector.object_type.should_be_closed = None THEN TRUE
                 ELSE Unwrap(selector.object_type.should_be_closed) = is_closed(area)
         IN good_object_type
            /\ \A i \in 1..Len(selector.tests) :
                   matches_by_tags(area, selector.tests[i])

area_matches_single(area, selector, z) ==
    IF IsSome(selector.min_zoom) /\ z < Unwrap(selector.min_zoom) THEN FALSE
    ELSE IF IsSome(selector.max_zoom) /\ z > Unwrap(selector.max_zoom) THEN FALSE
    ELSE IF selector.object_type.type # "Way" THEN FALSE
    ELSE LET good_object_type ==
                 IF selector.object_type.should_be_closed = None THEN TRUE
                 ELSE Unwrap(selector.object_type.should_be_closed) = is_closed(area)
         IN good_object_type
            /\ \A i \in 1..Len(selector.tests) :
                   matches_by_tags(area, selector.tests[i])

area_matches(area, selector, z) ==
    IF selector.kind = "Nested" THEN FALSE
    ELSE area_matches_single(area, selector.single, z)

get_layer_id(selector) ==
    LET single == IF selector.kind = "Single" THEN selector.single
                  ELSE selector.child
    IN IF IsSome(single.layer_id) THEN Unwrap(single.layer_id) ELSE "default"

(***************************************************************************)
(* The cascade (Styler::style_area).                                       *)
(***************************************************************************)
\* update_layer with entry().or_insert(): a key already present is kept
RECURSIVE update_layer_keep_first(_, _)
update_layer_keep_first(layer, properties) ==
    IF properties = <<>> THEN layer
    ELSE update_layer_keep_first(
             IF ContainsKey(layer, Head(properties).name) THEN layer
             ELSE Insert(layer, Head(properties).name, Head(properties).value),
             Tail(properties))

\* update_layer: insert every property of the rule, in order
RECURSIVE update_layer(_, _)
update_layer(layer, properties) ==
    IF properties = <<>> THEN layer
    ELSE update_layer(Insert(layer, Head(properties).name, Head(properties).value),
                      Tail(properties))

\* a new layer that starts empty instead of as a clone of "*"
parent_layer_empty(res) == EmptyMap

\* result.get("*").cloned().unwrap_or_default()
parent_layer(res) == IF ContainsKey(res, "*") THEN res["*"] ELSE EmptyMap

\* seeding without the contains_key test: every rule re-creates the layer
seed_layer_always(res, layer_id) == Insert(res, layer_id, parent_layer(res))

\* the first block of the loop body: create the layer if it is new
seed_layer(res, layer_id) ==
    IF ~ContainsKey(res, layer_id) THEN Insert(res, layer_id, parent_layer(res))
    ELSE res

\* the loop body without its last block
propagate_none(res, layer_id, properties) == res

\* the last block of the loop body: a "*" selector updates every other layer
propagate(res, layer_id, properties) ==
    IF layer_id = "*"
    THEN [k \in DOMAIN res |->
            IF k # "*" THEN update_layer(res[k], properties) ELSE res[k]]
    ELSE res

\* the loop body for one matching selector of a rule
apply_selector(res, rule, sel) ==
    LET layer_id == get_layer_id(sel)
        seeded == seed_layer(res, layer_id)
        updated == [seeded EXCEPT ![layer_id] = update_layer(@, rule.properties)]
    IN propagate(updated, layer_id, rule.properties)

(***************************************************************************)
(* The style extractor (property_map_to_style).  It returns the Style and  *)
(* the lines it wrote, in the order the code evaluates the fields.         *)
(***************************************************************************)
warn(property_map, osm_entity, prop_name, msg) ==
    IF ContainsKey(property_map, prop_name)
    THEN <<[entity |-> global_id(osm_entity), prop |-> prop_name,
            value |-> property_map[prop_name], msg |-> msg]>>
    ELSE <<>>

get_color(property_map, osm_entity, prop_name) ==
    LET v == Get(property_map, prop_name) IN
    IF IsSome(v) /\ Unwrap(v).kind = "Color"
    THEN [val |-> Some(Unwrap(v).color), warns |-> <<>>]
    ELSE IF IsSome(v) /\ Unwrap(v).kind = "Identifier"
    THEN LET color == from_color_name(Unwrap(v).id) IN
         [val |-> color,
          warns |-> IF color = None
                    THEN warn(property_map, osm_entity, prop_name, "unknown color")
                    ELSE <<>>]
    ELSE [val |-> None,
          warns |-> warn(property_map, osm_entity, prop_name, "expected a valid color")]

\* get_num without the guard nums.len() == 1: the first number is taken
get_num_first_number(property_map, osm_entity, prop_name) ==
    LET v == Get(property_map, prop_name) IN
    IF IsSome(v) /\ Unwrap(v).kind = "Numbers" /\ Len(Unwrap(v).nums) >= 1
    THEN [val |-> Some(Unwrap(v).nums[1]), warns |-> <<>>]
    ELSE [val |-> None,
          warns |-> warn(property_map, osm_entity, prop_name, "expected a number")]

get_num(property_map, osm_entity, prop_name) ==
    LET v == Get(property_map, prop_name) IN
    IF IsSome(v) /\ Unwrap(v).kind = "Numbers" /\ Len(Unwrap(v).nums) = 1
    THEN [val |-> Some(Unwrap(v).nums[1]), warns |-> <<>>]
    ELSE [val |-> None,
          warns |-> warn(property_map, osm_entity, prop_name, "expected a number")]

get_id(property_map, osm_entity, prop_name) ==
    LET v == Get(property_map, prop_name) IN
    IF IsSome(v) /\ Unwrap(v).kind = "Identifier"
    THEN [val |-> Some(Unwrap(v).id), warns |-> <<>>]
    ELSE [val |-> None,
          warns |-> warn(property_map, osm_entity, prop_name, "expected an identifier")]

get_line_join(property_map, osm_entity) ==
    LET g == get_id(property_map, osm_entity, "linejoin") IN
    IF g.val = Some("round") THEN [val |-> Some("Round"), warns |-> g.warns]
    ELSE IF g.val = Some("miter") THEN [val |-> Some("Miter"), warns |-> g.warns]
    ELSE IF g.val = Some("bevel") THEN [val |-> Some("Bevel"), warns |-> g.warns]
    ELSE [val |-> None,
          warns |-> g.warns \o warn(property_map, osm_entity, "linejoin",
                                    "unknown line join value")]

get_line_cap(property_map, osm_entity) ==
    LET g == get_id(property_map, osm_entity, "linecap") IN
    IF g.val = Some("none") THEN [val |-> Some("Butt"), warns |-> g.warns]
    ELSE IF g.val = Some("round") THEN [val |-> Some("Round"), warns |-> g.warns]
    ELSE IF g.val = Some("square") THEN [val |-> Some("Square"), warns |-> g.warns]
    ELSE [val |-> None,
          warns |-> g.warns \o warn(property_map, osm_entity, "linecap",
                                    "unknown line cap value")]

get_dashes(property_map, osm_entity) ==
    LET v == Get(property_map, "dashes") IN
    IF IsSome(v) /\ Unwrap(v).kind = "Numbers"
    THEN [val |-> Some(Unwrap(v).nums), warns |-> <<>>]
    ELSE [val |-> None,
          warns |-> warn(property_map, osm_entity, "dashes",
                         "expected a sequence of numbers")]

\* let z_index = get_num("z-index").unwrap_or(default_z_index)
get_z_index(property_map, default_z_index, osm_entity) ==
    LET g == get_num(property_map, osm_entity, "z-index") IN
    [val |-> IF IsSome(g.val) THEN Unwrap(g.val) ELSE default_z_index,
     warns |-> g.warns]

property_map_to_style(property_map, default_z_index, osm_entity) ==
    LET line_join == get_line_join(property_map, osm_entity)
        line_cap == get_line_cap(property_map, osm_entity)
        dashes == get_dashes(property_map, osm_entity)
        z_index == get_z_index(property_map, default_z_index, osm_entity)
        color == get_color(property_map, osm_entity, "color")
        fill_color == get_color(property_map, osm_entity, "fill-color")
        opacity == get_num(property_map, osm_entity, "opacity")
        fill_opacity == get_num(property_map, osm_entity, "fill-opacity")
        width == get_num(property_map, osm_entity, "width")
    IN [style |->
          [z_index |-> z_index.val,
           color |-> color.val,
           fill_color |-> fill_color.val,
           opacity |-> opacity.val,
           fill_opacity |-> fill_opacity.val,
           width |-> width.val,
           dashes |-> dashes.val,
           line_join |-> line_join.val,
           line_cap |-> line_cap.val],
        warnings |-> line_join.warns \o line_cap.warns \o dashes.warns
                     \o z_index.warns \o color.warns \o fill_color.warns
                     \o opacity.warns \o fill_opacity.warns \o width.warns]

(***************************************************************************)
(* The canvas fill colour (extract_canvas_fill_color, Styler::new).        *)
(***************************************************************************)
\* the innermost loop without its return: the last Color is the one kept
RECURSIVE last_fill_color(_)
last_fill_color(properties) ==
    IF properties = <<>> THEN None
    ELSE LET rest == last_fill_color(Tail(properties)) IN
         IF IsSome(rest) THEN rest
         ELSE IF Head(properties).name = "fill-color"
                 /\ Head(properties).value.kind = "Color"
         THEN Some(Head(properties).value.color)
         ELSE None

\* the innermost loop: the first "fill-color" property holding a Color
RECURSIVE first_fill_color(_)
first_fill_color(properties) ==
    IF properties = <<>> THEN None
    ELSE IF Head(properties).name = "fill-color"
            /\ Head(properties).value.kind = "Color"
    THEN Some(Head(properties).value.color)
    ELSE first_fill_color(Tail(properties))

\* if let Selector::Single(..) / if let ObjectType::Canvas
is_canvas_selector(selector) ==
    selector.kind = "Single" /\ selector.single.object_type.type = "Canvas"

\* the loop over the selectors of one rule
RECURSIVE canvas_color_of_selectors(_, _)
canvas_color_of_selectors(selectors, properties) ==
    IF selectors = <<>> THEN None
    ELSE IF is_canvas_selector(Head(selectors))
            /\ IsSome(first_fill_color(properties))
    THEN first_fill_color(properties)
    ELSE canvas_color_of_selectors(Tail(selectors), properties)

RECURSIVE extract_canvas_fill_color(_)
extract_canvas_fill_color(rs) ==
    IF rs = <<>> THEN None
    ELSE LET c == canvas_color_of_selectors(Head(rs).selectors, Head(rs).properties)
         IN IF IsSome(c) THEN c ELSE extract_canvas_fill_color(Tail(rs))

(***************************************************************************)
(* The draw-order sort (styled_areas.sort_by).                             *)
(***************************************************************************)
\* a comparator on the z-index alone
sort_cmp_z_only(e1, e2) == f64_partial_cmp(e1.style.z_index, e2.style.z_index)

\* (s1.z_index, w1.global_id()).partial_cmp(&(s2.z_index, w2.global_id()))
sort_cmp(e1, e2) ==
    LET c == f64_partial_cmp(e1.style.z_index, e2.style.z_index) IN
    IF c = "Equal" THEN u64_partial_cmp(global_id(e1.area), global_id(e2.area))
    ELSE c

\* slice::sort_by is a stable sort; unwrap() panics on the first None
RECURSIVE sort_insert(_, _)
sort_insert(r, e) ==
    IF r.panicked THEN r
    ELSE IF r.v = <<>> THEN [panicked |-> FALSE, v |-> <<e>>]
    ELSE LET last == r.v[Len(r.v)]
             c == sort_cmp(last, e)
         IN IF c = "None" THEN [panicked |-> TRUE, v |-> r.v]
            ELSE IF c \in {"Less", "Equal"}
            THEN [panicked |-> FALSE, v |-> Append(r.v, e)]
            ELSE LET rest == sort_insert([panicked |-> FALSE,
                                          v |-> SubSeq(r.v, 1, Len(r.v) - 1)], e)
                 IN [panicked |-> rest.panicked, v |-> Append(rest.v, last)]

RECURSIVE sort_by(_)
sort_by(s) ==
    IF s = <<>> THEN [panicked |-> FALSE, v |-> <<>>]
    ELSE sort_insert(sort_by(SubSeq(s, 1, Len(s) - 1)), s[Len(s)])

(***************************************************************************)
(* Styler::style_areas, step by step.                                      *)
(*   "idle"        no call is running                                     *)
(*   "style_area"  the rule loop of style_area for the feature areas[ai]   *)
(*   "extract"     iterating over the layers style_area returned           *)
(*   "sort"        every feature is collected; sort_by is next             *)
(*   "returned"    style_areas returned styled_areas                       *)
(*   "panicked"    the comparator's unwrap() panicked                      *)
(***************************************************************************)
x == areas[ai]

default_z_index(a) == IF is_closed(a) THEN 1 ELSE 3

\* flat_map without the filter
layer_filter_none(k) == TRUE

\* .filter(|&(k, _)| k != "*")
layer_filter(k) == k # "*"

Zooms == 0..MaxZoom

\* the iterators a caller can pass: the features of the geodata, each once
AreaSeqs == {s \in SeqsUpTo(features, Cardinality(features)) : Distinct(s)}

BeginCall(z, as) ==
    /\ zoom' = z
    /\ areas' = as
    /\ pc' = IF as = <<>> THEN "sort" ELSE "style_area"
    /\ ai' = 1
    /\ ri' = 1
    /\ si' = 1
    /\ result' = EmptyMap
    /\ pending' = {}
    /\ styled_areas' = <<>>

\* a caller invokes style_areas(areas, zoom)
Call ==
    /\ pc = "idle"
    /\ \E z \in Zooms, as \in AreaSeqs : BeginCall(z, as)
    /\ UNCHANGED <<rules, canvas_fill_color, features, log, prev>>

\* one iteration of "for sel in rule.selectors" (the filter included)
StyleAreaSelector ==
    /\ pc = "style_area"
    /\ ri <= Len(rules)
    /\ LET rule == rules[ri]
           sel == rule.selectors[si]
       IN /\ result' = IF area_matches(x, sel, zoom)
                       THEN apply_selector(result, rule, sel)
                       ELSE result
          /\ IF si < Len(rule.selectors)
             THEN si' = si + 1 /\ ri' = ri
             ELSE si' = 1 /\ ri' = ri + 1
    /\ UNCHANGED <<rules, canvas_fill_color, features, zoom, areas, pc, ai,
                   pending, styled_areas, log, prev>>

\* style_area returns result; flat_map starts to iterate over it
StyleAreaReturn ==
    /\ pc = "style_area"
    /\ ri > Len(rules)
    /\ pc' = "extract"
    /\ pending' = DOMAIN result
    /\ UNCHANGED <<rules, canvas_fill_color, features, zoom, areas, ai, ri, si,
                   result, styled_areas, log, prev>>

\* the HashMap yields one more layer, in an order of its own choosing
ExtractLayer ==
    /\ pc = "extract"
    /\ \E k \in pending :
         /\ pending' = pending \ {k}
         /\ IF layer_filter(k)
            THEN LET r == property_map_to_style(result[k], default_z_index(x), x)
                 IN /\ styled_areas' =
                          Append(styled_areas, [area |-> x, style |-> r.style])
                    /\ log' = log \o r.warnings
            ELSE UNCHANGED <<styled_areas, log>>
    /\ UNCHANGED <<rules, canvas_fill_color, features, zoom, areas, pc, ai, ri,
                   si, result, prev>>

\* the layers of this feature are exhausted: the next feature, or the sort
NextArea ==
    /\ pc = "extract"
    /\ pending = {}
    /\ IF ai < Len(areas)
       THEN /\ ai' = ai + 1
            /\ pc' = "style_area"
            /\ ri' = 1
            /\ si' = 1
            /\ result' = EmptyMap
       ELSE /\ pc' = "sort"
            /\ UNCHANGED <<ai, ri, si, result>>
    /\ UNCHANGED <<rules, canvas_fill_color, features, zoom, areas, pending,
                   styled_areas, log, prev>>

\* styled_areas.sort_by(..); styled_areas
Sort ==
    /\ pc = "sort"
    /\ LET r == sort_by(styled_areas)
       IN IF r.panicked
          THEN pc' = "panicked" /\ UNCHANGED styled_areas
          ELSE pc' = "returned" /\ styled_areas' = r.v
    /\ UNCHANGED <<rules, canvas_fill_color, features, zoom, areas, ai, ri, si,
                   result, pending, log, prev>>

Next ==
    \/ Call
    \/ StyleAreaSelector
    \/ StyleAreaReturn
    \/ ExtractLayer
    \/ NextArea
    \/ Sort

\* the same features at the same zoom are styled once more, in any order
CallAgain ==
    /\ pc = "returned"
    /\ prev = None
    /\ prev' = Some(styled_areas)
    /\ \E as \in AreaSeqs :
         /\ {as[i] : i \in 1..Len(as)} = {areas[i] : i \in 1..Len(areas)}
         /\ BeginCall(zoom, as)
    /\ UNCHANGED <<rules, canvas_fill_color, features, log>>

NextRuns == Next \/ CallAgain

(***************************************************************************)
(* Stylesheets and features the specifications start from.                 *)
(***************************************************************************)
A1 == Area(1, TRUE, [k \in {"building"} |-> "yes"])
A2 == Area(2, FALSE, [k \in {"lanes", "highway"} |->
                        IF k = "lanes" THEN "2" ELSE "residential"])

\* Styler::new(rules), for a reader that hands out the features fs
New(rs, fs) ==
    /\ rules = rs
    /\ canvas_fill_color = extract_canvas_fill_color(rs)
    /\ features = fs
    /\ zoom = 0
    /\ areas = <<>>
    /\ pc = "idle"
    /\ ai = 1
    /\ ri = 1
    /\ si = 1
    /\ result = EmptyMap
    /\ pending = {}
    /\ styled_areas = <<>>
    /\ log = <<>>
    /\ prev = None

WaySel(closed, layer) == Single(SingleSelector(Way(closed), None, None, <<>>, layer))

\* Cascade: one closed feature; rules over the layers "a", "*", "default"
CascadeProps == {Property("width", Numbers(<<1>>)),
                 Property("width", Numbers(<<2>>)),
                 Property("opacity", Numbers(<<1>>))}
CascadeRules ==
    {Rule(<<WaySel(None, l)>>, <<p>>) : l \in {Some("a"), Some("*")},
                                        p \in CascadeProps}
    \cup {Rule(<<WaySel(None, None)>>, <<>>),
          Rule(<<WaySel(None, Some("a")), WaySel(None, Some("*"))>>,
               <<Property("opacity", Numbers(<<2>>))>>),
          Rule(<<WaySel(Some(FALSE), Some("a"))>>,
               <<Property("width", Numbers(<<3>>))>>),
          Rule(<<WaySel(None, Some("a"))>>,
               <<Property("width", Numbers(<<2>>)),
                 Property("width", Numbers(<<1>>))>>)}

InitCascade == \E rs \in SeqsUpTo(CascadeRules, MaxRules) : New(rs, {A1})

SpecCascade == InitCascade /\ [][Next]_vars

\* Sort: a closed and an open feature; rules that set z-index per layer
ZIndex(v) == Property("z-index", Numbers(<<v>>))
SortRules ==
    {Rule(<<WaySel(c, l)>>, <<ZIndex(v)>>) :
        c \in {None, Some(TRUE)}, l \in {None, Some("a")}, v \in {1, 3}}
    \cup {Rule(<<WaySel(None, Some("*"))>>, <<ZIndex(2)>>),
          Rule(<<WaySel(Some(TRUE), None), WaySel(Some(TRUE), Some("a"))>>,
               <<ZIndex(1)>>),
          Rule(<<WaySel(None, None)>>, <<ZIndex(NaN)>>)}

InitSort == \E rs \in SeqsUpTo(SortRules, MaxSortRules) : New(rs, {A1, A2})

SpecSort == InitSort /\ [][Next]_vars

\* Match: one rule with one selector, over every object type, zoom range
\* and list of tests below
ZoomBounds == {None} \cup {Some(z) : z \in Zooms}
ObjectTypes == {Way(None), Way(Some(TRUE)), Way(Some(FALSE)), Canvas, Node}
MatchTests ==
    {Unary("building", tt) : tt \in {"Exists", "NotExists", "True", "False"}}
    \cup {BinaryStringCompare("highway", v, tt) :
            v \in {"residential", "primary"}, tt \in {"Equal", "NotEqual"}}
    \cup {BinaryNumericCompare(tag, 2, tt) :
            tag \in {"lanes", "highway"},
            tt \in {"Less", "LessOrEqual", "Greater", "GreaterOrEqual"}}
MatchTestLists ==
    {<<>>} \cup {<<t>> : t \in MatchTests}
    \cup {<<t1, t2>> : t1, t2 \in {Unary("lanes", "Exists"),
                                   BinaryNumericCompare("lanes", 1, "Greater")}}
MatchSingles ==
    {SingleSelector(ot, mn, mx, ts, None) :
        ot \in ObjectTypes, mn \in ZoomBounds, mx \in ZoomBounds,
        ts \in MatchTestLists}
MatchSelectors ==
    {Single(sg) : sg \in MatchSingles}
    \cup {Nested(WaySel(None, None).single, WaySel(None, None).single)}
MatchRules ==
    {Rule(<<sel>>, <<Property("width", Numbers(<<2>>))>>) : sel \in MatchSelectors}

InitMatch == \E r \in MatchRules : New(<<r>>, {A1, A2})

SpecMatch == InitMatch /\ [][Next]_vars

\* Extract: one rule for the layer "default" with at most one property,
\* every property name with every shape of value
ExtractNames == {"z-index", "color", "fill-color", "opacity", "fill-opacity",
                 "width", "dashes", "linejoin", "linecap"}
ExtractValues == {Color("#00ff00"), Identifier("red"), Identifier("teal"),
                  Identifier("round"), Identifier("none"),
                  Numbers(<<>>), Numbers(<<2>>), Numbers(<<2, 4>>)}
ExtractRules ==
    {Rule(<<WaySel(None, None)>>, <<>>)}
    \cup {Rule(<<WaySel(None, None)>>, <<Property(n, v)>>) :
            n \in ExtractNames, v \in ExtractValues}
    \cup {Rule(<<WaySel(None, None)>>, <<Property("z-index", v), Property(n, w)>>) :
            v \in {Identifier("red"), Numbers(<<2>>)},
            n \in {"width", "linecap"},
            w \in {Identifier("round"), Numbers(<<2, 4>>)}}

InitExtract == \E r \in ExtractRules : New(<<r>>, {A1, A2})

SpecExtract == InitExtract /\ [][Next]_vars

\* Canvas: rules for the canvas and for ways, with fill colours given as
\* colours and as names
CanvasSel == Single(SingleSelector(Canvas, None, None, <<>>, None))
CanvasSelectorLists ==
    {<<CanvasSel>>,
     <<WaySel(None, None)>>,
     <<WaySel(None, None), CanvasSel>>,
     <<Nested(WaySel(None, None).single, CanvasSel.single)>>}
CanvasPropertyLists ==
    {<<Property("fill-color", Color("#ffffff"))>>,
     <<Property("fill-color", Color("#000000"))>>,
     <<Property("fill-color", Identifier("red"))>>,
     <<Property("color", Color("#00ff00")),
       Property("fill-color", Identifier("red")),
       Property("fill-color", Color("#000000")),
       Property("fill-color", Color("#ffffff"))>>,
     <<Property("color", Color("#00ff00"))>>}
CanvasRules ==
    {Rule(sels, props) : sels \in CanvasSelectorLists, props \in CanvasPropertyLists}

InitCanvas == \E rs \in SeqsUpTo(CanvasRules, MaxCanvasRules) : New(rs, {A1})

SpecCanvas == InitCanvas /\ [][Next]_vars

\* Runs: two features styled twice; rules that give layers a colour
RunsRules ==
    {Rule(<<WaySel(None, l)>>, <<Property("color", Color(c))>>) :
        l \in {None, Some("a")}, c \in {"#ff0000", "#0000ff"}}

InitRuns == \E rs \in SeqsUpTo(RunsRules, MaxSortRules) : New(rs, {A1, A2})

SpecRuns == InitRuns /\ [][NextRuns]_vars

(***************************************************************************)
(* Vocabulary of the properties: the stylesheet read as a list of          *)
(* positions <<rule, selector>> in stylesheet order.                       *)
(***************************************************************************)
\* the property names and the layer names the stylesheet mentions
PropNames == UNION {{rules[i].properties[k].name :
                        k \in 1..Len(rules[i].properties)} : i \in 1..Len(rules)}

Positions == UNION {{<<i, j>> : j \in 1..Len(rules[i].selectors)} :
                      i \in 1..Len(rules)}
PosBefore(q1, q2) == q1[1] < q2[1] \/ (q1[1] = q2[1] /\ q1[2] < q2[2])
SelAt(q) == rules[q[1]].selectors[q[2]]

\* the rule assigns property name p / the value it leaves under p
Assigns(rule, p) == \E k \in 1..Len(rule.properties) : rule.properties[k].name = p
RuleValue(rule, p) ==
    LET last == CHOOSE k \in 1..Len(rule.properties) :
                    /\ rule.properties[k].name = p
                    /\ \A m \in (k + 1)..Len(rule.properties) :
                           rule.properties[m].name # p
    IN rule.properties[last].value

\* position q applies to feature a at zoom z and writes to layer l
Hits(q, a, z, l) == area_matches(a, SelAt(q), z) /\ get_layer_id(SelAt(q)) = l

\* the positions the rule loop has already been through
Done(q) == PosBefore(q, <<ri, si>>)

LayerNames == {get_layer_id(SelAt(q)) : q \in Positions}

InLoop == pc \in {"style_area", "extract"}

\* the positions before `upto` that write p into layer l, directly or via "*"
Writers(l, p, a, z) ==
    {q \in Positions : /\ Done(q)
                       /\ Hits(q, a, z, l) \/ Hits(q, a, z, "*")
                       /\ Assigns(rules[q[1]], p)}
LastOf(Q) == CHOOSE q \in Q : \A o \in Q : o = q \/ PosBefore(o, q)

(***************************************************************************)
(* C10.  At every point of the rule loop, the layers of result are the     *)
(* layers hit so far; a layer other than "*" maps each property name to    *)
(* the value of the last position so far that hits the layer or "*" and    *)
(* assigns the name, and has no other key; so every key of "*" is a key of *)
(* every other layer.                                                      *)
(***************************************************************************)
C10_CascadeIsOrderedFold ==
    InLoop =>
      /\ DOMAIN result =
           {l \in LayerNames : \E q \in Positions : Done(q) /\ Hits(q, x, zoom, l)}
      /\ \A l \in DOMAIN result \ {"*"} :
           /\ DOMAIN result[l] = {p \in PropNames : Writers(l, p, x, zoom) # {}}
           /\ \A p \in DOMAIN result[l] :
                result[l][p] =
                  RuleValue(rules[LastOf(Writers(l, p, x, zoom))[1]], p)
           /\ ContainsKey(result, "*") =>
                DOMAIN result["*"] \subseteq DOMAIN result[l]

\* a layer holds a value that a later "*" rule wrote over the layer's own
C10_Witness ==
    /\ pc = "extract"
    /\ ContainsKey(result, "a")
    /\ \E q1, q2 \in Positions, p \in PropNames :
         /\ PosBefore(q1, q2)
         /\ Hits(q1, x, zoom, "a") /\ Assigns(rules[q1[1]], p)
         /\ Hits(q2, x, zoom, "*") /\ Assigns(rules[q2[1]], p)
         /\ RuleValue(rules[q1[1]], p) # RuleValue(rules[q2[1]], p)
         /\ result["a"][p] = RuleValue(rules[q2[1]], p)

(***************************************************************************)
(* C3 as stated.  When the rule loop is over: if two rules both hit layer  *)
(* l and leave different values under p, result[l][p] is the value of the  *)
(* later of the two.                                                       *)
(***************************************************************************)
RuleHits(i, a, z, l) ==
    \E j \in 1..Len(rules[i].selectors) : Hits(<<i, j>>, a, z, l)

C3_LaterOfTwoWins ==
    pc = "extract" =>
      \A i1, i2 \in 1..Len(rules), l \in LayerNames, p \in PropNames :
        ( /\ i1 < i2
          /\ RuleHits(i1, x, zoom, l) /\ Assigns(rules[i1], p)
          /\ RuleHits(i2, x, zoom, l) /\ Assigns(rules[i2], p)
          /\ RuleValue(rules[i1], p) # RuleValue(rules[i2], p) )
        => result[l][p] = RuleValue(rules[i2], p)

(***************************************************************************)
(* C3 amended.  ... result[l][p] is the value of the later of the two,     *)
(* unless a rule after it hits l or "*" and assigns p again.               *)
(***************************************************************************)
C3_LaterWinsUnlessReassigned ==
    pc = "extract" =>
      \A i1, i2 \in 1..Len(rules), l \in LayerNames, p \in PropNames :
        ( /\ i1 < i2
          /\ RuleHits(i1, x, zoom, l) /\ Assigns(rules[i1], p)
          /\ RuleHits(i2, x, zoom, l) /\ Assigns(rules[i2], p)
          /\ RuleValue(rules[i1], p) # RuleValue(rules[i2], p)
          /\ ~\E i3 \in (i2 + 1)..Len(rules) :
                /\ RuleHits(i3, x, zoom, l) \/ RuleHits(i3, x, zoom, "*")
                /\ Assigns(rules[i3], p) )
        => result[l][p] = RuleValue(rules[i2], p)

\* two rules wrote different values under one key of a named layer, after
\* the wildcard layer had received a third
C3_Witness ==
    /\ pc = "extract"
    /\ \E i1, i2 \in 1..Len(rules), p \in PropNames :
         /\ i1 < i2
         /\ RuleHits(i1, x, zoom, "a") /\ Assigns(rules[i1], p)
         /\ RuleHits(i2, x, zoom, "a") /\ Assigns(rules[i2], p)
         /\ RuleValue(rules[i1], p) # RuleValue(rules[i2], p)
         /\ ~\E i3 \in (i2 + 1)..Len(rules) :
               /\ RuleHits(i3, x, zoom, "a") \/ RuleHits(i3, x, zoom, "*")
               /\ Assigns(rules[i3], p)
         /\ result["a"][p] = RuleValue(rules[i2], p)
         /\ ContainsKey(result, "*") /\ ContainsKey(result["*"], p)
         /\ result["*"][p] # result["a"][p]

(***************************************************************************)
(* C4.  A step of the rule loop whose selector matches and names a layer l *)
(* other than "*": if l is new, it becomes the "*" layer of that moment    *)
(* (empty if there is none) with the rule's properties written over it; if *)
(* l exists, only the rule's properties change in it, so nothing is reset  *)
(* to the wildcard's value.  Every other layer is left alone.              *)
(***************************************************************************)
AtMatchingSelector ==
    /\ pc = "style_area"
    /\ ri <= Len(rules)
    /\ area_matches(x, rules[ri].selectors[si], zoom)

\* map m is map base with the properties of rule written over it
IsOverwrite(m, base, rule) ==
    /\ DOMAIN m = DOMAIN base \cup {p \in PropNames : Assigns(rule, p)}
    /\ \A p \in DOMAIN m :
         m[p] = IF Assigns(rule, p) THEN RuleValue(rule, p) ELSE base[p]

C4_SeededOnceFromWildcard ==
    [][ (AtMatchingSelector /\ get_layer_id(rules[ri].selectors[si]) # "*") =>
          LET rule == rules[ri]
              l == get_layer_id(rule.selectors[si])
          IN /\ DOMAIN result' = DOMAIN result \cup {l}
             /\ IF ContainsKey(result, l)
                THEN IsOverwrite(result'[l], result[l], rule)
                ELSE IF ContainsKey(result, "*")
                THEN IsOverwrite(result'[l], result["*"], rule)
                ELSE IsOverwrite(result'[l], EmptyMap, rule)
             /\ \A k \in DOMAIN result \ {l} : result'[k] = result[k]
      ]_vars

\* a second rule for layer "a" has just run, and "a" still holds a value of
\* its own under a key the rule does not assign and the wildcard lacks or
\* holds differently
C4_Witness ==
    /\ pc = "style_area"
    /\ ri > 2 /\ si = 1
    /\ Len(rules[ri - 1].selectors) = 1
    /\ Hits(<<ri - 1, 1>>, x, zoom, "a")
    /\ \E q \in Positions : q[1] < ri - 1 /\ Hits(q, x, zoom, "a")
    /\ ContainsKey(result, "*")
    /\ \E p \in DOMAIN result["a"] :
         /\ ~Assigns(rules[ri - 1], p)
         /\ ~ContainsKey(result["*"], p) \/ result["*"][p] # result["a"][p]
    /\ \E p \in DOMAIN result["*"] : result["*"][p] # result["a"][p]

(***************************************************************************)
(* C5.  A step of the rule loop whose selector matches and names "*":      *)
(* afterwards every layer, "*" included, maps each property name of the    *)
(* rule to the rule's value; the other names are as they were; the only    *)
(* layer that can be new is "*" itself.                                    *)
(***************************************************************************)
C5_WildcardReachesEveryLayer ==
    [][ (AtMatchingSelector /\ get_layer_id(rules[ri].selectors[si]) = "*") =>
          /\ DOMAIN result' = DOMAIN result \cup {"*"}
          /\ \A k \in DOMAIN result :
               IsOverwrite(result'[k], result[k], rules[ri])
          /\ ~ContainsKey(result, "*") =>
               IsOverwrite(result'["*"], EmptyMap, rules[ri])
      ]_vars

\* a "*" rule has just run over two named layers, one of which held another
\* value under a key of the rule
C5_Witness ==
    /\ pc = "style_area"
    /\ ri > 1 /\ si = 1
    /\ Len(rules[ri - 1].selectors) = 1
    /\ Hits(<<ri - 1, 1>>, x, zoom, "*")
    /\ {"a", "default", "*"} \subseteq DOMAIN result
    /\ \E q \in Positions, p \in PropNames :
         /\ q[1] < ri - 1
         /\ Hits(q, x, zoom, "a")
         /\ Assigns(rules[q[1]], p) /\ Assigns(rules[ri - 1], p)
         /\ RuleValue(rules[q[1]], p) # RuleValue(rules[ri - 1], p)
         /\ \A k \in DOMAIN result : result[k][p] = RuleValue(rules[ri - 1], p)

(***************************************************************************)
(* C1.  What style_areas returns is sorted: of two adjacent pairs, the     *)
(* first has the smaller z-index, or the same z-index and a global id that *)
(* is not larger.                                                          *)
(***************************************************************************)
C1_ReturnedSorted ==
    pc = "returned" =>
      \A i \in 1..(Len(styled_areas) - 1) :
        LET e1 == styled_areas[i]
            e2 == styled_areas[i + 1]
        IN /\ ~IsNaN(e1.style.z_index) /\ ~IsNaN(e2.style.z_index)
           /\ \/ e1.style.z_index < e2.style.z_index
              \/ /\ e1.style.z_index = e2.style.z_index
                 /\ e1.area.id <= e2.area.id

\* the features came in descending id order, two pairs tie on z-index and a
\* third differs
C1_Witness ==
    /\ pc = "returned"
    /\ areas = <<A2, A1>>
    /\ Len(styled_areas) >= 3
    /\ \E i \in 1..(Len(styled_areas) - 1) :
         /\ styled_areas[i].style.z_index = styled_areas[i + 1].style.z_index
         /\ styled_areas[i].area.id < styled_areas[i + 1].area.id
    /\ \E i \in 1..(Len(styled_areas) - 1) :
         styled_areas[i].style.z_index < styled_areas[i + 1].style.z_index

(***************************************************************************)
(* C2.  Once every feature is collected, each feature passed in has one    *)
(* pair per layer name other than "*" that a matching selector names, and  *)
(* no other pair; a feature not passed in has none.                        *)
(***************************************************************************)
NamedLayersHit(a, z) ==
    {l \in LayerNames \ {"*"} : \E q \in Positions : Hits(q, a, z, l)}
PairsOf(a) == {i \in 1..Len(styled_areas) : styled_areas[i].area = a}

C2_OnePairPerNamedLayer ==
    pc \in {"sort", "returned"} =>
      \A a \in features :
        Cardinality(PairsOf(a)) =
          IF \E i \in 1..Len(areas) : areas[i] = a
          THEN Cardinality(NamedLayersHit(a, zoom))
          ELSE 0

\* one feature is hit on "*" and on two named layers and has two pairs; the
\* other is hit on "*" alone and has none
C2_Witness ==
    /\ pc = "returned"
    /\ Len(areas) = 2
    /\ \E a, b \in features :
         /\ \E q \in Positions : Hits(q, a, zoom, "*")
         /\ Cardinality(NamedLayersHit(a, zoom)) = 2
         /\ Cardinality(PairsOf(a)) = 2
         /\ \E q \in Positions : Hits(q, b, zoom, "*")
         /\ NamedLayersHit(b, zoom) = {}
         /\ PairsOf(b) = {}

(***************************************************************************)
(* C6.  For a Single selector, a feature and the zoom of the call: the     *)
(* selector does not match when zoom < min_zoom or zoom > max_zoom; in     *)
(* every other case, zoom = min_zoom and zoom = max_zoom included, it      *)
(* matches exactly when the same selector without zoom bounds matches.     *)
(***************************************************************************)
OutOfZoom(sg, z) ==
    \/ sg.min_zoom # None /\ z < sg.min_zoom[1]
    \/ sg.max_zoom # None /\ z > sg.max_zoom[1]
Unbounded(sg) == [sg EXCEPT !.min_zoom = None, !.max_zoom = None]

C6_ZoomBoundsInclusive ==
    pc # "idle" =>
      \A q \in Positions, a \in features :
        SelAt(q).kind = "Single" =>
          LET sg == SelAt(q).single IN
          area_matches_single(a, sg, zoom) <=>
            /\ ~OutOfZoom(sg, zoom)
            /\ area_matches_single(a, Unbounded(sg), zoom)

\* the rule loop went through a selector whose two bounds equal the zoom,
\* and the feature has its layer
C6_Witness ==
    /\ pc = "extract"
    /\ zoom > 0
    /\ \E q \in Positions :
         /\ SelAt(q).kind = "Single"
         /\ SelAt(q).single.min_zoom = Some(zoom)
         /\ SelAt(q).single.max_zoom = Some(zoom)
         /\ SelAt(q).single.tests # <<>>
         /\ ContainsKey(result, get_layer_id(SelAt(q)))

(***************************************************************************)
(* C7 as stated.  A step that extracts a layer whose "z-index" is absent   *)
(* or is not a Numbers of length 1 appends a Style whose z_index is the    *)
(* default (1 for a closed feature, 3 for an open one) and writes no line  *)
(* about "z-index".                                                        *)
(***************************************************************************)
Extracted == CHOOSE k \in pending : k \notin pending'
ExtractsNamedLayer == pc = "extract" /\ pending' # pending /\ Extracted # "*"
ZIndexValid(pm) ==
    /\ ContainsKey(pm, "z-index")
    /\ pm["z-index"].kind = "Numbers"
    /\ Len(pm["z-index"].nums) = 1
NewLines == SubSeq(log', Len(log) + 1, Len(log'))
ZIndexLines == {i \in 1..Len(NewLines) : NewLines[i].prop = "z-index"}
AppendedDefaultZ ==
    /\ Len(styled_areas') = Len(styled_areas) + 1
    /\ styled_areas'[Len(styled_areas')].area = x
    /\ styled_areas'[Len(styled_areas')].style.z_index = IF x.closed THEN 1 ELSE 3

C7_DefaultZIndexSilent ==
    [][ (ExtractsNamedLayer /\ ~ZIndexValid(result[Extracted])) =>
          AppendedDefaultZ /\ ZIndexLines = {}
      ]_vars

(***************************************************************************)
(* C7 amended.  ... appends a Style whose z_index is the default; it       *)
(* writes no line about "z-index" when the property is absent, and one     *)
(* line, "expected a number", when it is present and invalid.              *)
(***************************************************************************)
C7_DefaultZIndexWarnsIfPresent ==
    [][ (ExtractsNamedLayer /\ ~ZIndexValid(result[Extracted])) =>
          /\ AppendedDefaultZ
          /\ IF ContainsKey(result[Extracted], "z-index")
             THEN /\ Cardinality(ZIndexLines) = 1
                  /\ \A i \in ZIndexLines :
                       /\ NewLines[i].msg = "expected a number"
                       /\ NewLines[i].entity = x.id
                       /\ NewLines[i].value = result[Extracted]["z-index"]
             ELSE ZIndexLines = {}
      ]_vars

\* an open feature was given the default 3 for a "z-index" of two numbers,
\* and the line about it was written
C7_Witness ==
    /\ pc = "returned"
    /\ \E i \in 1..Len(styled_areas) :
         /\ ~styled_areas[i].area.closed
         /\ styled_areas[i].style.z_index = 3
    /\ \E i \in 1..Len(log) :
         /\ log[i].prop = "z-index"
         /\ log[i].entity = 2
         /\ log[i].value = Numbers(<<2, 4>>)

(***************************************************************************)
(* C8 as stated.  canvas_fill_color is decided by the first rule that has  *)
(* a Single selector for the canvas and a "fill-color" property, and by    *)
(* the first such property of that rule; it is None if there is no such    *)
(* rule.                                                                   *)
(***************************************************************************)
HasCanvasSelector(rule) ==
    \E j \in 1..Len(rule.selectors) :
        /\ rule.selectors[j].kind = "Single"
        /\ rule.selectors[j].single.object_type.type = "Canvas"
FirstWhere(S) == CHOOSE i \in S : \A j \in S : i <= j
FillColors(rule) ==
    {k \in 1..Len(rule.properties) : rule.properties[k].name = "fill-color"}
ColorFillColors(rule) ==
    {k \in FillColors(rule) : rule.properties[k].value.kind = "Color"}

C8_FirstCanvasFillColorDecides ==
    LET D == {i \in 1..Len(rules) :
                HasCanvasSelector(rules[i]) /\ FillColors(rules[i]) # {}}
    IN IF D = {} THEN canvas_fill_color = None
       ELSE LET rule == rules[FirstWhere(D)]
                v == rule.properties[FirstWhere(FillColors(rule))].value
            IN canvas_fill_color = IF v.kind = "Color" THEN Some(v.color) ELSE None

(***************************************************************************)
(* C8 amended.  canvas_fill_color is decided by the first rule that has a  *)
(* Single selector for the canvas and a "fill-color" property whose value  *)
(* is a Color, and by the first such property of that rule; it is None if  *)
(* there is no such rule.                                                  *)
(***************************************************************************)
C8_FirstCanvasColorValueDecides ==
    LET D == {i \in 1..Len(rules) :
                HasCanvasSelector(rules[i]) /\ ColorFillColors(rules[i]) # {}}
    IN IF D = {} THEN canvas_fill_color = None
       ELSE LET rule == rules[FirstWhere(D)]
                v == rule.properties[FirstWhere(ColorFillColors(rule))].value
            IN canvas_fill_color = Some(v.color)

\* the stored colour is the first Color of the first canvas rule that has
\* one, although other colours follow in that rule and in a later rule,
\* and a call has run since
C8_Witness ==
    /\ pc = "returned"
    /\ Len(rules) = 2
    /\ HasCanvasSelector(rules[1]) /\ HasCanvasSelector(rules[2])
    /\ Cardinality(ColorFillColors(rules[1])) = 2
    /\ ColorFillColors(rules[2]) # {}
    /\ canvas_fill_color = Some("#000000")
    /\ rules[2].properties[1].value = Color("#ffffff")

(***************************************************************************)
(* C9.  Two calls of style_areas for the same features at the same zoom    *)
(* return the same sequence, whatever the order of the features and the    *)
(* order in which the layer maps are iterated.                             *)
(***************************************************************************)
C9_SameDrawOrder ==
    (pc = "returned" /\ prev # None) => styled_areas = prev[1]

====
